---------------------------- MODULE Spec2Model ----------------------------
(***************************************************************************)
(* Model of src/FIS/PythonFISFunction.py: the Mamdani fuzzy inference      *)
(* system built by fis_create and evaluated by fis_solve through the       *)
(* scikit-fuzzy control API (Antecedent/Consequent, trimf, Rule,           *)
(* ControlSystem, ControlSystemSimulation).                                *)
(*                                                                         *)
(* Numbers.  The program computes in IEEE 754 double precision, and so     *)
(* does the model: a double is <<sign, mantissa, exponent>> and stands for *)
(* sign * mantissa * 2^exponent, with sign 1 or -1 and the mantissa an odd *)
(* natural number below 2^53 (zero is <<1, <<>>, 0>>).  Every operation    *)
(* computes the exact result and rounds it to the nearest double, ties to  *)
(* the even mantissa.  The values of the program stay far from overflow    *)
(* and underflow, and neither NaN nor infinity occurs.  Mantissas are      *)
(* natural numbers of arbitrary size: sequences of digits in base Base,    *)
(* least significant first, without leading zero digits (zero is <<>>).    *)
(***************************************************************************)
EXTENDS Integers, Sequences, FiniteSets, TLC

\* the state of the program and of its caller
VARIABLES
    pc,          \* "start", "idle", "inputs_set" (line 143 done), "computed" (line 147 done)
    rulebase,    \* the list returned by fis_create (<<>> before it is built)
    plan,        \* the calls the caller is still going to make
    args,        \* the arguments of the call in progress
    ctrl_rules,  \* the rules of the ControlSystem of the call in progress
    input,       \* sim.input, as held by the simulation
    firing,      \* rule.aggregate_firing of every rule, in rule-base order
    output,      \* sim.output['Suitability'], or the error raised by compute
    log,         \* the finished calls: arguments and what the caller got
    warnings,    \* diagnostics emitted to the caller besides the result
    tri,         \* the term and universe point a membership degree is computed for
    degree       \* that membership degree

vars == <<pc, rulebase, plan, args, ctrl_rules, input, firing, output, log,
          warnings, tri, degree>>

Base == 32768

\* the bits of one digit
DigitBits == 15

\* the bits of the mantissa of a double
MantissaBits == 53

\* 2^k for k in 0..DigitBits
Powers ==
    <<1, 2, 4, 8, 16, 32, 64, 128, 256, 512, 1024, 2048, 4096, 8192, 16384,
      32768>>

Pow2(k) == Powers[k + 1]

\* the element of a set of one element.  the({e(v) : v \in {d}}) is
\* LET v == d IN e(v); written so, the value of d is computed before e(v),
\* and not inside it where v is first used.  The loops below hand their
\* values from one pass to the next in this way.
the(S) == CHOOSE v \in S : TRUE

RECURSIVE ToBig(_)
ToBig(n) == IF n = 0 THEN <<>> ELSE <<n % Base>> \o ToBig(n \div Base)

\* without the zero digits at the most significant end
BigTrim(a) ==
    LET used == {i \in 1..Len(a) : a[i] # 0}
    IN  IF used = {} THEN <<>>
        ELSE SubSeq(a, 1, CHOOSE i \in used : \A j \in used : j <= i)

RECURSIVE BigAddC(_, _, _)
BigAddC(a, b, carry) ==
    IF a = <<>> /\ b = <<>>
    THEN IF carry = 0 THEN <<>> ELSE <<carry>>
    ELSE LET da == IF a = <<>> THEN 0 ELSE Head(a)
             db == IF b = <<>> THEN 0 ELSE Head(b)
             s  == da + db + carry
             ta == IF a = <<>> THEN <<>> ELSE Tail(a)
             tb == IF b = <<>> THEN <<>> ELSE Tail(b)
         IN  <<s % Base>> \o BigAddC(ta, tb, s \div Base)

BigAdd(a, b) == BigAddC(a, b, 0)

\* a - b for a >= b
RECURSIVE BigSubB(_, _, _)
BigSubB(a, b, borrow) ==
    IF a = <<>> THEN <<>>
    ELSE LET db == IF b = <<>> THEN 0 ELSE Head(b)
             tb == IF b = <<>> THEN <<>> ELSE Tail(b)
             s  == Head(a) - db - borrow
         IN  IF s < 0
             THEN <<s + Base>> \o BigSubB(Tail(a), tb, 1)
             ELSE <<s>> \o BigSubB(Tail(a), tb, 0)

BigSub(a, b) == BigTrim(BigSubB(a, b, 0))

\* a times one digit k (0 <= k < Base)
RECURSIVE BigScaleC(_, _, _)
BigScaleC(a, k, carry) ==
    IF a = <<>>
    THEN IF carry = 0 THEN <<>> ELSE <<carry>>
    ELSE LET s == Head(a) * k + carry
         IN  <<s % Base>> \o BigScaleC(Tail(a), k, s \div Base)

BigScale(a, k) == IF k = 0 THEN <<>> ELSE BigScaleC(a, k, 0)

\* a times Base^n
BigShift(a, n) == IF a = <<>> THEN a ELSE [i \in 1..n |-> 0] \o a

RECURSIVE BigMul(_, _)
BigMul(a, b) ==
    IF a = <<>> \/ b = <<>> THEN <<>>
    ELSE IF Head(a) = 0
         THEN BigShift(BigMul(Tail(a), b), 1)
         ELSE BigAdd(BigScaleC(b, Head(a), 0), BigShift(BigMul(Tail(a), b), 1))

\* a <= b, comparing from the most significant digit
BigLe(a, b) ==
    IF Len(a) # Len(b) THEN Len(a) < Len(b)
    ELSE LET differ == {i \in 1..Len(a) : a[i] # b[i]}
             top    == CHOOSE i \in differ : \A j \in differ : j <= i
         IN  differ = {} \/ a[top] < b[top]

\* a \div 2^t for t in 0..DigitBits: every digit gives up its t low bits
\* and takes the t low bits of the next digit as its high bits
BigHalve(a, t) ==
    BigTrim([i \in 1..Len(a) |->
                (a[i] \div Pow2(t))
                + (IF i < Len(a) THEN (a[i + 1] % Pow2(t)) * Pow2(DigitBits - t)
                   ELSE 0)])

\* the number of bits of a digit
DigitLen(t) == CHOOSE k \in 0..DigitBits : t < Pow2(k) /\ (k = 0 \/ t >= Pow2(k - 1))

\* the number of factors 2 of a digit t > 0
DigitTwos(t) == CHOOSE k \in 0..(DigitBits - 1) : t % Pow2(k) = 0 /\ t % Pow2(k + 1) # 0

BitLen(a) == IF a = <<>> THEN 0 ELSE DigitBits * (Len(a) - 1) + DigitLen(a[Len(a)])

\* a * 2^t for t in 0..(DigitBits - 1): every digit keeps its low bits, moved
\* up, and takes the t high bits of the digit before it
BigDouble(a, t) ==
    BigTrim([i \in 1..(Len(a) + 1) |->
                (IF i <= Len(a) THEN (a[i] % Pow2(DigitBits - t)) * Pow2(t) ELSE 0)
                + (IF i > 1 THEN a[i - 1] \div Pow2(DigitBits - t) ELSE 0)])

\* a * 2^k
ShiftLeft(a, k) == BigShift(BigDouble(a, k % DigitBits), k \div DigitBits)

\* <<a \div 2^k, a % 2^k # 0>>
ShiftRight(a, k) ==
    LET n    == k \div DigitBits
        low  == SubSeq(a, 1, IF n < Len(a) THEN n ELSE Len(a))
        high == IF n < Len(a) THEN SubSeq(a, n + 1, Len(a)) ELSE <<>>
        t    == k % DigitBits
    IN  <<BigHalve(high, t),
          (high # <<>> /\ high[1] % Pow2(t) # 0) \/ \E i \in 1..Len(low) : low[i] # 0>>

\* the largest digit q with q * d <= cur, where guess >= q
RECURSIVE QuotientDigit(_, _, _)
QuotientDigit(cur, d, guess) ==
    IF BigLe(BigScale(d, guess), cur) THEN guess
    ELSE QuotientDigit(cur, d, guess - 1)

\* one step of the long division by d: the digit digit of the dividend is
\* brought down to the remainder qr[2], and the next digit of the quotient
\* is put before qr[1].  The top digit of d is at least Base / 2, so the
\* guess made from the two top digits of the running remainder is at most 2
\* above the digit.
BigDivStep(qr, digit, d) ==
    LET cur   == BigTrim(<<digit>> \o qr[2])
        n     == Len(d)
        top   == (IF Len(cur) > n THEN cur[n + 1] * Base ELSE 0)
                 + (IF Len(cur) >= n THEN cur[n] ELSE 0)
        est   == top \div d[n]
        guess == IF est > Base - 1 THEN Base - 1 ELSE est
        q     == QuotientDigit(cur, d, guess)
    IN  <<<<q>> \o qr[1], BigSub(cur, BigScale(d, q))>>

\* the long division of a by d over the digits hi down to lo of a, entered
\* with <<quotient, remainder>> = qr (the range is halved, so that the
\* evaluation nests less deeply than the number of digits)
RECURSIVE BigDivLoop(_, _, _, _, _)
BigDivLoop(a, d, qr, hi, lo) ==
    IF hi < lo THEN qr
    ELSE IF hi = lo THEN BigDivStep(qr, a[hi], d)
    ELSE LET mid == (hi + lo) \div 2
         IN  the({BigDivLoop(a, d, upper, mid, lo) :
                    upper \in {BigDivLoop(a, d, qr, hi, mid + 1)}})

\* <<a \div d, a % d # 0>> for d > 0.  Both are doubled until the top
\* digit of d is at least Base / 2; the digits of a that are fewer than
\* those of d are the first remainder.
BigDivMod(a, d) ==
    LET t    == DigitBits - DigitLen(d[Len(d)])
        n    == BigDouble(a, t)
        m    == BigDouble(d, t)
        skip == IF Len(n) < Len(m) THEN Len(n) ELSE Len(m) - 1
        r    == BigDivLoop(n, m, <<<<>>, SubSeq(n, Len(n) - skip + 1, Len(n))>>,
                           Len(n) - skip, 1)
    IN  <<BigTrim(r[1]), r[2] # <<>>>>

(***************************************************************************)
(* IEEE 754 double precision, round to nearest, ties to even.              *)
(***************************************************************************)
Zero == <<1, <<>>, 0>>

\* sign * m * 2^e with the factors 2 of m moved into the exponent
Canonical(sign, m, e) ==
    IF m = <<>> THEN Zero
    ELSE LET n == (CHOOSE i \in 1..Len(m) : m[i] # 0 /\ \A j \in 1..(i - 1) : m[j] = 0) - 1
             t == DigitTwos(m[n + 1])
         IN  <<sign, BigHalve(SubSeq(m, n + 1, Len(m)), t), e + DigitBits * n + t>>

\* the double nearest to sign * m * 2^e (plus a positive amount below 2^e
\* when inexact holds)
Round(sign, m, e, inexact) ==
    LET k == BitLen(m) - MantissaBits
    IN  IF k <= 0 THEN Canonical(sign, m, e)
        ELSE LET r1   == ShiftRight(m, k - 1)
                 half == Head(r1[1]) % 2 = 1
                 q    == BigHalve(r1[1], 1)
                 odd  == Head(q) % 2 = 1
                 up   == half /\ (r1[2] \/ inexact \/ odd)
             IN  Canonical(sign, IF up THEN BigAdd(q, <<1>>) ELSE q, e + k)

\* float(n) for an integer n
Float(n) == IF n < 0 THEN Canonical(-1, ToBig(-n), 0) ELSE Canonical(1, ToBig(n), 0)

\* a * b
Product(a, b) ==
    IF a = Zero \/ b = Zero THEN Zero
    ELSE Round(a[1] * b[1], BigMul(a[2], b[2]), a[3] + b[3], FALSE)

\* a + b
Sum(a, b) ==
    IF a = Zero THEN b
    ELSE IF b = Zero THEN a
    ELSE LET e  == IF a[3] < b[3] THEN a[3] ELSE b[3]
             na == ShiftLeft(a[2], a[3] - e)
             nb == ShiftLeft(b[2], b[3] - e)
         IN  IF a[1] = b[1] THEN Round(a[1], BigAdd(na, nb), e, FALSE)
             ELSE IF na = nb THEN Zero
             ELSE IF BigLe(nb, na) THEN Round(a[1], BigSub(na, nb), e, FALSE)
             ELSE Round(b[1], BigSub(nb, na), e, FALSE)

\* a / b for b # 0: the quotient of the mantissas to at least 56 bits
Quotient(a, b) ==
    IF a = Zero THEN Zero
    ELSE LET d == MantissaBits + 3 + BitLen(b[2]) - BitLen(a[2])
             k == IF d < 0 THEN 0 ELSE d
             r == BigDivMod(ShiftLeft(a[2], k), b[2])
         IN  Round(a[1] * b[1], r[1], a[3] - b[3] - k, r[2])

\* a < b
Less(a, b) ==
    IF a = b THEN FALSE
    ELSE IF a[1] # b[1] THEN a[1] < b[1]
    ELSE IF a = Zero THEN b[1] = 1
    ELSE IF b = Zero THEN a[1] = -1
    ELSE LET e  == IF a[3] < b[3] THEN a[3] ELSE b[3]
             na == ShiftLeft(a[2], a[3] - e)
             nb == ShiftLeft(b[2], b[3] - e)
         IN  IF a[1] = 1 THEN BigLe(na, nb) ELSE BigLe(nb, na)

(***************************************************************************)
(* The interpreter.  python(f, x) is the value of the call of f with the   *)
(* arguments x: f is an operation on doubles, or a function of the program *)
(* or of its callers (defined at the end of the program).  The program     *)
(* uses the operations on doubles through it, and the actions and the      *)
(* initial states use the program through it, so that program and          *)
(* arithmetic are one recursive definition.                                *)
(***************************************************************************)
RECURSIVE python(_, _)

FromInt(n) == python("float", <<n>>)

QNeg(a) == IF a = Zero THEN Zero ELSE <<-a[1], a[2], a[3]>>

QMul(a, b) == python("*", <<a, b>>)

QAdd(a, b) == python("+", <<a, b>>)

QSub(a, b) == python("+", <<a, QNeg(b)>>)

QDiv(a, b) == python("/", <<a, b>>)

QLt(a, b) == python("<", <<a, b>>)

QLe(a, b) == a = b \/ QLt(a, b)

\* the double that Python evaluates n / d to, for two integers n and d
Q(n, d) == QDiv(FromInt(n), FromInt(d))

One == FromInt(1)

\* np.finfo(float).eps
eps == <<1, <<1>>, 1 - MantissaBits>>

\* np.fmin / np.fmax on two scalars
fmin(p, q) == IF QLe(p, q) THEN p ELSE q

fmax(p, q) == IF QLe(p, q) THEN q ELSE p

\* np.array: the function f on 1..n as a sequence of its values
array(f) == f \o <<>>

\* a Python dict: the function f as the table of its values
dict(f) == f @@ <<>>

(***************************************************************************)
(* fis_create, step 1: universes of discourse and membership functions.    *)
(***************************************************************************)
lh_range == <<Q(0, 1), Q(5, 6), Q(4, 1), Q(5, 1), Q(6, 1), Q(55, 6), Q(10, 1)>>

dtt_range == <<Q(0, 1), Q(25, 12), Q(10, 1), Q(25, 2), Q(15, 1), Q(275, 12), Q(25, 1)>>

tdt_range == <<Q(0, 1), Q(25, 6), Q(15, 1), Q(25, 1), Q(30, 1), Q(275, 6), Q(50, 1)>>

cap_range == <<Q(0, 1), Q(1, 1)>>

suit_range ==
    <<Q(0, 1), Q(5, 12), Q(25, 12), Q(5, 2), Q(35, 12), Q(55, 12), Q(5, 1),
      Q(65, 12), Q(85, 12), Q(15, 2), Q(95, 12), Q(115, 12), Q(10, 1)>>

\* trimf with the right side rising instead of falling: (x - b) / (c - b)
trimf_at_rising(x, abc) ==
    LET a == abc[1]
        b == abc[2]
        c == abc[3]
    IN  IF x = b THEN One
        ELSE IF b # c /\ QLt(b, x) /\ QLt(x, c)
             THEN QDiv(QSub(x, b), QSub(c, b))
        ELSE IF a # b /\ QLt(a, x) /\ QLt(x, b)
             THEN QDiv(QSub(x, a), QSub(b, a))
        ELSE Zero

\* trimf without the final assignment of 1 at x = b, the two sides taken
\* with closed intervals instead
trimf_at_closed(x, abc) ==
    LET a == abc[1]
        b == abc[2]
        c == abc[3]
    IN  IF b # c /\ QLe(b, x) /\ QLe(x, c)
        THEN QDiv(QSub(c, x), QSub(c, b))
        ELSE IF a # b /\ QLe(a, x) /\ QLe(x, b)
             THEN QDiv(QSub(x, a), QSub(b, a))
        ELSE Zero

\* trimf without the final assignment of 1 at x = b
trimf_at_nopeak(x, abc) ==
    LET a == abc[1]
        b == abc[2]
        c == abc[3]
    IN  IF b # c /\ QLt(b, x) /\ QLt(x, c)
        THEN QDiv(QSub(c, x), QSub(c, b))
        ELSE IF a # b /\ QLt(a, x) /\ QLt(x, b)
             THEN QDiv(QSub(x, a), QSub(b, a))
        ELSE Zero

\* skfuzzy.trimf at one point x, for the breakpoints abc = <<a, b, c>>:
\* the left side where a < x < b, the right side where b < x < c, 1 where
\* x = b and 0 everywhere else.
trimf_at(x, abc) ==
    LET a == abc[1]
        b == abc[2]
        c == abc[3]
    IN  IF x = b THEN One
        ELSE IF b # c /\ QLt(b, x) /\ QLt(x, c)
             THEN QDiv(QSub(c, x), QSub(c, b))
        ELSE IF a # b /\ QLt(a, x) /\ QLt(x, b)
             THEN QDiv(QSub(x, a), QSub(b, a))
        ELSE Zero

\* skfuzzy.trimf(universe, abc): the membership function sampled on the universe
trimf(universe, abc) ==
    array([i \in 1..Len(universe) |-> trimf_at(universe[i], abc)])

\* the breakpoints given to trimf for every term, as written in fis_create
lh_abc ==
    ("Low" :> <<Q(0, 1), Q(0, 1), Q(6, 1)>>) @@
    ("Medium" :> <<Q(5, 6), Q(5, 1), Q(55, 6)>>) @@
    ("High" :> <<Q(4, 1), Q(10, 1), Q(10, 1)>>)

dtt_abc ==
    ("Low" :> <<Q(0, 1), Q(0, 1), Q(15, 1)>>) @@
    ("Medium" :> <<Q(25, 12), Q(25, 2), Q(275, 12)>>) @@
    ("High" :> <<Q(10, 1), Q(25, 1), Q(25, 1)>>)

tdt_abc ==
    ("Low" :> <<Q(0, 1), Q(0, 1), Q(30, 1)>>) @@
    ("Medium" :> <<Q(25, 6), Q(25, 1), Q(275, 6)>>) @@
    ("High" :> <<Q(15, 1), Q(50, 1), Q(50, 1)>>)

cap_abc ==
    ("No Match" :> <<Q(0, 1), Q(0, 1), Q(0, 1)>>) @@
    ("Matched" :> <<Q(1, 1), Q(1, 1), Q(1, 1)>>)

suit_abc ==
    ("Unacceptable" :> <<Q(0, 1), Q(0, 1), Q(0, 1)>>) @@
    ("Very Low" :> <<Q(0, 1), Q(0, 1), Q(25, 12)>>) @@
    ("Low" :> <<Q(5, 12), Q(5, 2), Q(55, 12)>>) @@
    ("Medium" :> <<Q(35, 12), Q(5, 1), Q(85, 12)>>) @@
    ("High" :> <<Q(65, 12), Q(15, 2), Q(115, 12)>>) @@
    ("Very High" :> <<Q(95, 12), Q(10, 1), Q(10, 1)>>)

\* ctrl.Antecedent / ctrl.Consequent: a label, a universe and the terms'
\* sampled membership functions
Variable(label, universe, abc) ==
    [label |-> label, universe |-> universe, abc |-> abc,
     terms |-> dict([t \in DOMAIN abc |-> trimf(universe, abc[t])])]

lh == Variable("Load History", lh_range, lh_abc)

dtt == Variable("Distance to Task", dtt_range, dtt_abc)

tdt == Variable("Total Distance Travelled", tdt_range, tdt_abc)

cap == Variable("Capability", cap_range, cap_abc)

suit == Variable("Suitability", suit_range, suit_abc)

Antecedents ==
    ("Load History" :> lh) @@ ("Distance to Task" :> dtt) @@
    ("Total Distance Travelled" :> tdt) @@ ("Capability" :> cap)

(***************************************************************************)
(* fis_create, step 2: the rule base.                                      *)
(***************************************************************************)
\* ctrl.Rule(lh[l] & dtt[d] & tdt[t] & cap[c], suit[s])
Rule(l, d, t, c, s) ==
    [antecedent |-> <<<<"Load History", l>>, <<"Distance to Task", d>>,
                      <<"Total Distance Travelled", t>>, <<"Capability", c>>>>,
     consequent |-> s]

\* ctrl.Rule(cap[c], suit[s])
RuleCap(c, s) == [antecedent |-> <<<<"Capability", c>>>>, consequent |-> s]

fis_create ==
    << Rule("Low", "Low", "Low", "Matched", "Very High"),        \* Rule 01
       Rule("Medium", "Low", "Low", "Matched", "High"),          \* Rule 02
       Rule("High", "Low", "Low", "Matched", "Medium"),          \* Rule 03
       Rule("Low", "Medium", "Low", "Matched", "High"),          \* Rule 04
       Rule("Medium", "Medium", "Low", "Matched", "Medium"),     \* Rule 05
       Rule("High", "Medium", "Low", "Matched", "Medium"),       \* Rule 06
       Rule("Low", "High", "Low", "Matched", "Medium"),          \* Rule 07
       Rule("Medium", "High", "Low", "Matched", "Medium"),       \* Rule 08
       Rule("High", "High", "Low", "Matched", "Low"),            \* Rule 09
       Rule("Low", "Low", "Medium", "Matched", "High"),          \* Rule 10
       Rule("Medium", "Low", "Medium", "Matched", "Medium"),     \* Rule 11
       Rule("High", "Low", "Medium", "Matched", "Medium"),       \* Rule 12
       Rule("Low", "Medium", "Medium", "Matched", "Medium"),     \* Rule 13
       Rule("Medium", "Medium", "Medium", "Matched", "Low"),     \* Rule 14
       Rule("High", "Medium", "Medium", "Matched", "Low"),       \* Rule 15
       Rule("Low", "High", "Medium", "Matched", "Medium"),       \* Rule 16
       Rule("Medium", "High", "Medium", "Matched", "Low"),       \* Rule 17
       Rule("High", "High", "Medium", "Matched", "Very Low"),    \* Rule 18
       Rule("Low", "Low", "High", "Matched", "Medium"),          \* Rule 19
       Rule("Medium", "Low", "High", "Matched", "Medium"),       \* Rule 20
       Rule("High", "Low", "High", "Matched", "Low"),            \* Rule 21
       Rule("Low", "Medium", "High", "Matched", "Medium"),       \* Rule 22
       Rule("Medium", "Medium", "High", "Matched", "Low"),       \* Rule 23
       Rule("High", "Medium", "High", "Matched", "Very Low"),    \* Rule 24
       Rule("Low", "High", "High", "Matched", "Low"),            \* Rule 25
       Rule("Medium", "High", "High", "Matched", "Very Low"),    \* Rule 26
       Rule("High", "High", "High", "Matched", "Very Low"),      \* Rule 27
       RuleCap("No Match", "Unacceptable") >>                    \* Rule 28

(***************************************************************************)
(* fis_solve: the scikit-fuzzy simulation of one crisp input tuple.        *)
(***************************************************************************)
\* Python's None for a membership value that no rule has set yet
None == <<>>

\* an input acceptor that stores the value as given (no clipping)
clip_nothing(universe, value) == value

\* an input acceptor that clips values above the universe only
clip_upper_only(universe, value) ==
    LET umax == CHOOSE m \in {universe[i] : i \in 1..Len(universe)} :
                    \A i \in 1..Len(universe) : QLe(universe[i], m)
    IN  IF QLt(umax, value) THEN umax ELSE value

\* _InputAcceptor.__setitem__ of a ControlSystemSimulation created with the
\* default clip_to_bounds=True: a value above universe.max() becomes the
\* maximum, a value below universe.min() the minimum.  Nothing is reported.
clip_to_bounds(universe, value) ==
    LET umax == CHOOSE m \in {universe[i] : i \in 1..Len(universe)} :
                    \A i \in 1..Len(universe) : QLe(universe[i], m)
        umin == CHOOSE m \in {universe[i] : i \in 1..Len(universe)} :
                    \A i \in 1..Len(universe) : QLe(m, universe[i])
        v1 == IF QLt(umax, value) THEN umax ELSE value
    IN  IF QLt(v1, umin) THEN umin ELSE v1

\* lines 140-143: sim.input[label] = value for the four antecedents
sim_input(load, distance, travelled, c) ==
    ("Load History" :> clip_to_bounds(lh.universe, load)) @@
    ("Distance to Task" :> clip_to_bounds(dtt.universe, distance)) @@
    ("Total Distance Travelled" :> clip_to_bounds(tdt.universe, travelled)) @@
    ("Capability" :> clip_to_bounds(cap.universe, c))

\* the search of np.interp for xx in the increasing points x: 0 when xx is
\* below the first point, Len(x) + 1 when it is above the last one, and
\* otherwise the index j with x[j] <= xx < x[j + 1] (Len(x) at the last point)
binary_search(x, xx) ==
    IF QLt(xx, x[1]) THEN 0
    ELSE IF QLt(x[Len(x)], xx) THEN Len(x) + 1
    ELSE IF xx = x[Len(x)] THEN Len(x)
    ELSE CHOOSE j \in 1..(Len(x) - 1) : QLe(x[j], xx) /\ QLt(xx, x[j + 1])

\* interpolation that treats the last universe point as outside
interp_open(x, xmf, xx, j) ==
    IF j = 0 \/ j >= Len(x) THEN Zero
    ELSE IF x[j] = xx THEN xmf[j]
    ELSE LET slope == QDiv(QSub(xmf[j + 1], xmf[j]), QSub(x[j + 1], x[j]))
         IN  QAdd(QMul(slope, QSub(xx, x[j])), xmf[j])

\* np.interp(xx, x, xmf, left=0, right=0) once the search has found j: the
\* sample itself at a sample point, and slope * (xx - x[j]) + xmf[j] between
\* two samples, the product and the sum rounded one after the other
interp(x, xmf, xx, j) ==
    IF j = 0 \/ j = Len(x) + 1 THEN Zero
    ELSE IF j = Len(x) THEN xmf[j]
    ELSE IF x[j] = xx THEN xmf[j]
    ELSE LET slope == QDiv(QSub(xmf[j + 1], xmf[j]), QSub(x[j + 1], x[j]))
         IN  QAdd(QMul(slope, QSub(xx, x[j])), xmf[j])

\* skfuzzy.interp_membership(x, xmf, xx) = np.interp(xx, x, xmf, left=0,
\* right=0): linear interpolation between the samples, 0 outside the universe
interp_membership(x, xmf, xx) == interp(x, xmf, xx, binary_search(x, xx))

\* CrispValueCalculator.fuzz for every antecedent: the membership value of
\* each term at the crisp input
fuzz(crisp) ==
    dict([label \in DOMAIN Antecedents |->
            dict([t \in DOMAIN Antecedents[label].terms |->
                    interp_membership(Antecedents[label].universe,
                                      Antecedents[label].terms[t], crisp[label])])])

\* the membership value of a rule's antecedent: the terms joined by & are
\* combined left to right with np.fmin
RECURSIVE and_func(_, _, _)
and_func(clauses, memb, n) ==
    LET m == memb[clauses[n][1]][clauses[n][2]]
    IN  IF n = 1 THEN m ELSE fmin(and_func(clauses, memb, n - 1), m)

aggregate_firing(rule, memb) == and_func(rule.antecedent, memb, Len(rule.antecedent))

\* an accumulation that keeps the value of the rule computed last
accumulate_last(value, old) == value

\* the accumulation method of the consequent (np.fmax) on a term that
\* already has a membership value
accumulate(value, old) == fmax(value, old)

\* ControlSystemSimulation.compute_rule: the firing strength of the rule
\* (weight 1) is accumulated into the membership value of its consequent term
compute_rule(rule, memb, cuts) ==
    LET value == aggregate_firing(rule, memb)
        term  == rule.consequent
    IN  dict([cuts EXCEPT ![term] =
                IF cuts[term] = None THEN value ELSE accumulate(value, cuts[term])])

\* the loop of compute over the rules lo..hi of the control system, in
\* order, entered with the membership values cuts of the consequent terms
\* (the range is halved, so that the evaluation nests less deeply than the
\* number of rules)
RECURSIVE compute_rules(_, _, _, _, _)
compute_rules(rules, memb, cuts, lo, hi) ==
    IF lo > hi THEN cuts
    ELSE IF lo = hi THEN compute_rule(rules[lo], memb, cuts)
    ELSE LET mid == (lo + hi) \div 2
         IN  the({compute_rules(rules, memb, first, mid + 1, hi) :
                    first \in {compute_rules(rules, memb, cuts, lo, mid)}})

\* skfuzzy.control _interp_universe_fast(x, xmf, y): the universe values at
\* which the sampled membership function crosses the level y
interp_universe_fast(x, xmf, y) ==
    LET above == array([i \in 1..Len(x) |->
                          IF y = Zero THEN QLt(y, xmf[i]) ELSE QLe(y, xmf[i])])
        idx   == {i \in 1..(Len(x) - 1) : above[i] # above[i + 1]}
        at(k) == CHOOSE i \in idx : Cardinality({j \in idx : j < i}) = k - 1
        xx(i) == QAdd(x[i], QDiv(QMul(QSub(y, xmf[i]), QSub(x[i + 1], x[i])),
                                 QSub(xmf[i + 1], xmf[i])))
    IN  array([k \in 1..Cardinality(idx) |-> xx(at(k))])

\* the sorted sequence s with the value v put in its place, unless it is there
insert(s, v) ==
    LET below == {i \in 1..Len(s) : QLt(s[i], v)}
        n     == Cardinality(below)
    IN  IF \E i \in 1..Len(s) : s[i] = v THEN s
        ELSE SubSeq(s, 1, n) \o <<v>> \o SubSeq(s, n + 1, Len(s))

\* np.union1d of the sorted sequence s of distinct values and the values
\* lo..hi of the sequence new: the sorted sequence of the distinct values of
\* both (the range is halved, so that the evaluation nests less deeply than
\* the number of values)
RECURSIVE union1d(_, _, _, _)
union1d(s, new, lo, hi) ==
    IF lo > hi THEN s
    ELSE IF lo = hi THEN insert(s, new[lo])
    ELSE LET mid == (lo + hi) \div 2
         IN  the({union1d(first, new, mid + 1, hi) :
                    first \in {union1d(s, new, lo, mid)}})

\* new_values of find_memberships: the crossing points of the terms that
\* have a membership value, one term after the other
RECURSIVE new_values(_, _)
new_values(cuts, terms) ==
    IF terms = {} THEN <<>>
    ELSE LET t == CHOOSE u \in terms : TRUE
         IN  interp_universe_fast(suit.universe, suit.terms[t], cuts[t])
             \o new_values(cuts, terms \ {t})

\* the terms of the consequent that have a membership value
cut_terms(cuts) == {t \in DOMAIN cuts : cuts[t] # None}

\* CrispValueCalculator.find_memberships, the upsampled universe: the
\* universe of the consequent plus the crossing points of every term
new_universe(cuts) ==
    LET new == new_values(cuts, cut_terms(cuts))
    IN  union1d(suit.universe, new, 1, Len(new))

\* np.maximum over the terms of np.minimum(cut, upsampled membership) at the
\* point xx, which the search has found at index j of the universe
RECURSIVE max_over(_, _, _, _)
max_over(terms, cuts, xx, j) ==
    IF terms = {} THEN Zero
    ELSE LET t == CHOOSE u \in terms : TRUE
         IN  fmax(max_over(terms \ {t}, cuts, xx, j),
                  fmin(cuts[t], interp(suit.universe, suit.terms[t], xx, j)))

\* CrispValueCalculator.find_memberships, the aggregated output membership:
\* at every point the maximum over the terms of the term's function clipped
\* at its membership value
output_mf(cuts, universe) ==
    array([i \in 1..Len(universe) |->
              max_over(cut_terms(cuts), cuts, universe[i],
                       binary_search(suit.universe, universe[i]))])

(***************************************************************************)
(* Defuzzification: skfuzzy.centroid, sum_moment_area / sum_area over the  *)
(* segments of the piecewise-linear curve, in the order of the operations  *)
(* of the library.                                                         *)
(***************************************************************************)
\* the literals 0.5, 2.0 / 3.0 and 1.0 / 3.0
Half == Q(1, 2)

TwoThirds == Q(2, 3)

OneThird == Q(1, 3)

\* the segment with the moment of a rising triangle taken at one third of
\* its width instead of two thirds
segment_one_third(x1, x2, y1, y2) ==
    LET w == QSub(x2, x1)
        moment ==
            IF y1 = y2 THEN QMul(Half, QAdd(x1, x2))
            ELSE IF y1 = Zero /\ y2 # Zero THEN QAdd(QMul(OneThird, w), x1)
            ELSE IF y2 = Zero /\ y1 # Zero THEN QAdd(QMul(OneThird, w), x1)
            ELSE QAdd(QDiv(QMul(QMul(TwoThirds, w), QAdd(y2, QMul(Half, y1))),
                           QAdd(y1, y2)), x1)
        area ==
            IF y1 = y2 THEN QMul(w, y1)
            ELSE IF y1 = Zero /\ y2 # Zero THEN QMul(QMul(Half, w), y2)
            ELSE IF y2 = Zero /\ y1 # Zero THEN QMul(QMul(Half, w), y1)
            ELSE QMul(QMul(Half, w), QAdd(y1, y2))
    IN  IF (y1 = Zero /\ y2 = Zero) \/ x1 = x2 THEN <<Zero, Zero>>
        ELSE <<QMul(moment, area), area>>

\* one pass of the loop of skfuzzy.centroid, for the segment from (x1, y1)
\* to (x2, y2): what it adds to sum_moment_area and to sum_area
segment(x1, x2, y1, y2) ==
    LET w == QSub(x2, x1)
        moment ==
            IF y1 = y2 THEN QMul(Half, QAdd(x1, x2))             \* rectangle
            ELSE IF y1 = Zero /\ y2 # Zero                       \* triangle, height y2
                 THEN QAdd(QMul(TwoThirds, w), x1)
            ELSE IF y2 = Zero /\ y1 # Zero                       \* triangle, height y1
                 THEN QAdd(QMul(OneThird, w), x1)
            ELSE QAdd(QDiv(QMul(QMul(TwoThirds, w), QAdd(y2, QMul(Half, y1))),
                           QAdd(y1, y2)), x1)
        area ==
            IF y1 = y2 THEN QMul(w, y1)
            ELSE IF y1 = Zero /\ y2 # Zero THEN QMul(QMul(Half, w), y2)
            ELSE IF y2 = Zero /\ y1 # Zero THEN QMul(QMul(Half, w), y1)
            ELSE QMul(QMul(Half, w), QAdd(y1, y2))
    IN  IF (y1 = Zero /\ y2 = Zero) \/ x1 = x2 THEN <<Zero, Zero>>
        ELSE <<QMul(moment, area), area>>

\* the loop of centroid over the points lo..hi, each with the point before
\* it, entered with sums = <<sum_moment_area, sum_area>> (the range is
\* halved, so that the evaluation nests less deeply than the number of points)
RECURSIVE centroid_sums(_, _, _, _, _)
centroid_sums(x, mfx, sums, lo, hi) ==
    IF lo > hi THEN sums
    ELSE IF lo = hi
    THEN LET seg == segment(x[lo - 1], x[lo], mfx[lo - 1], mfx[lo])
         IN  <<QAdd(sums[1], seg[1]), QAdd(sums[2], seg[2])>>
    ELSE LET mid == (lo + hi) \div 2
         IN  the({centroid_sums(x, mfx, first, mid + 1, hi) :
                    first \in {centroid_sums(x, mfx, sums, lo, mid)}})

\* a crisp output: either the error raised by the evaluation, or a double
Number(v) == [error |-> FALSE, value |-> v]

ValueError == [error |-> TRUE, value |-> Zero]

\* skfuzzy.centroid(x, mfx)
centroid(x, mfx) ==
    IF Len(x) = 1
    THEN Number(QDiv(QMul(x[1], mfx[1]), fmax(mfx[1], eps)))
    ELSE LET sums == centroid_sums(x, mfx, <<Zero, Zero>>, 2, Len(x))
         IN  Number(QDiv(sums[1], fmax(sums[2], eps)))

\* mfx.sum() over the points lo..hi.  The sum is only compared with zero,
\* and a sum of doubles that are not negative is zero in whatever order it
\* is added exactly when all of them are zero.
RECURSIVE sum(_, _, _)
sum(mfx, lo, hi) ==
    IF lo = hi THEN mfx[lo]
    ELSE LET mid == (lo + hi) \div 2
         IN  QAdd(sum(mfx, lo, mid), sum(mfx, mid + 1, hi))

\* skfuzzy.defuzz(x, mfx, 'centroid') as called by CrispValueCalculator.defuzz:
\* a total membership of zero fails ("Total area is zero in
\* defuzzification!"), and the caller turns that into a ValueError
defuzz(x, mfx) ==
    IF sum(mfx, 1, Len(mfx)) = Zero THEN ValueError ELSE centroid(x, mfx)

\* the membership value of every consequent term after all rules have fired
memberships(rules, crisp) ==
    compute_rules(rules, fuzz(crisp), [t \in DOMAIN suit.terms |-> None], 1, Len(rules))

\* ControlSystemSimulation.compute followed by sim.output['Suitability']
\* (lines 145-147), on the inputs held by the simulation
compute(rules, crisp) ==
    LET cuts == memberships(rules, crisp)
        x    == new_universe(cuts)
    IN  IF cut_terms(cuts) = {} THEN ValueError ELSE defuzz(x, output_mf(cuts, x))

\* fis_solve(rulebase, load, distance, travelled, cap)
fis_solve(rules, load, distance, travelled, c) ==
    compute(rules, sim_input(load, distance, travelled, c))

(***************************************************************************)
(* The program as a state machine: fis_create builds the rule base once, a *)
(* caller then evaluates input tuples with fis_solve, one call at a time   *)
(* (the variables are declared at the head of the module).                 *)
(***************************************************************************)
\* a control system that takes the rules out of the list it is given
ControlSystem_consuming(rules) == <<rules, <<>>>>

\* ControlSystem(rulebase), line 134: every rule of the list is added to the
\* system; the list itself is only iterated.  <<rules of the system, the list
\* afterwards>>
ControlSystem(rules) == <<rules, rules>>

\* the list a caller passes as rulebase: the built list with the rules at
\* positions o.i and o.j exchanged and then rotated left by o.rot
\* (o.i = o.j, o.rot = 0 is the list itself)
reordered(rules, o) ==
    LET n  == Len(rules)
        sw == [k \in 1..n |-> IF k = o.i THEN rules[o.j]
                              ELSE IF k = o.j THEN rules[o.i] ELSE rules[k]]
    IN  [k \in 1..n |-> sw[((k - 1 + o.rot) % n) + 1]]

SameOrder == [i |-> 1, j |-> 1, rot |-> 0]

CallArgs(l, d, t, c, o) ==
    [load |-> l, distance |-> d, travelled |-> t, cap |-> c, order |-> o]

NoArgs == CallArgs(Zero, Zero, Zero, Zero, SameOrder)

NoInput == [label \in {"Load History", "Distance to Task", "Total Distance Travelled",
                       "Capability"} |-> Zero]

NoTri == [var |-> "", term |-> "", point |-> 0]

\* the state when the module has been imported and nothing has been called
InitWith(plans, points) ==
    /\ pc = "start"
    /\ rulebase = <<>>
    /\ plan \in plans
    /\ args = NoArgs
    /\ ctrl_rules = <<>>
    /\ input = NoInput
    /\ firing = <<>>
    /\ output = ValueError
    /\ log = <<>>
    /\ warnings = <<>>
    /\ tri \in points
    /\ degree = None

\* rulebase = fis_create()
Create ==
    /\ pc = "start"
    /\ rulebase' = python("fis_create", <<>>)
    /\ pc' = "idle"
    /\ UNCHANGED <<plan, args, ctrl_rules, input, firing, output, log, warnings,
                   tri, degree>>

\* fis_solve, lines 134-143: build the control system and the simulation and
\* set the four inputs
Call ==
    /\ pc = "idle"
    /\ plan # <<>>
    /\ LET a    == Head(plan)
           sys  == ControlSystem(reordered(rulebase, a.order))
       IN  /\ args' = a
           /\ ctrl_rules' = sys[1]
           \* the caller passes the built list itself, or a reordered copy of it
           /\ rulebase' = IF a.order = SameOrder THEN sys[2] ELSE rulebase
           /\ input' = python("sim.input", <<a.load, a.distance, a.travelled, a.cap>>)
    /\ plan' = Tail(plan)
    /\ pc' = "inputs_set"
    /\ UNCHANGED <<firing, output, log, warnings, tri, degree>>

\* fis_solve, lines 145-147: sim.compute() and the read of the output
Compute ==
    /\ pc = "inputs_set"
    /\ firing' = python("aggregate_firing", <<rulebase, input>>)
    /\ output' = python("sim.compute", <<ctrl_rules, input>>)
    /\ pc' = "computed"
    /\ UNCHANGED <<rulebase, plan, args, ctrl_rules, input, log, warnings, tri, degree>>

\* fis_solve, line 148: the result (or the exception) reaches the caller
Return ==
    /\ pc = "computed"
    /\ log' = Append(log, [args |-> args, result |-> output])
    /\ pc' = "idle"
    /\ UNCHANGED <<rulebase, plan, args, ctrl_rules, input, firing, output,
                   warnings, tri, degree>>

Next == Create \/ Call \/ Compute \/ Return

(***************************************************************************)
(* The calls of the caller.                                                *)
(***************************************************************************)
Points(universe) == {universe[i] : i \in 1..Len(universe)}

InUniverse(universe, v) == QLe(universe[1], v) /\ QLe(v, universe[Len(universe)])

\* the sample points of every universe, a value between the first two of
\* them, a value below and a value above the universe
Loads == Points(lh_range) \cup {Q(1, 2), Q(-1, 1), Q(100, 1)}

Distances == Points(dtt_range) \cup {Q(1, 1), Q(-1, 1), Q(100, 1)}

Travels == Points(tdt_range) \cup {Q(2, 1), Q(-1, 1), Q(100, 1)}

\* the capabilities the caller documents, and two it does not
Caps == Points(cap_range)

OtherCaps == {Q(1, 2), Q(2, 1)}

\* 2^-22, a value next to the lower boundary of every universe
Tiny == Q(1, 4194304)

\* every load, distance and travelled with capability 0 and 1; the other
\* capabilities with every load, at two distances and two travelled; and
\* the calls next to the call (0, 0, 0, 1)
Grid ==
    {CallArgs(l, d, t, c, SameOrder) :
        l \in Loads, d \in Distances, t \in Travels, c \in Caps}
    \cup {CallArgs(l, d, t, c, SameOrder) :
            l \in Loads, d \in {Q(0, 1), Q(100, 1)}, t \in {Q(-1, 1), Q(25, 1)},
            c \in OtherCaps}
    \cup {CallArgs(l, d, t, One, SameOrder) :
            l \in {Zero, Tiny}, d \in {Zero, Tiny}, t \in {Zero, Tiny}}

Corners ==
    { CallArgs(Q(0, 1), Q(0, 1), Q(0, 1), Q(1, 1), SameOrder),
      CallArgs(Q(10, 1), Q(25, 1), Q(50, 1), Q(1, 1), SameOrder),
      CallArgs(Q(5, 1), Q(25, 2), Q(25, 1), Q(1, 1), SameOrder),
      CallArgs(Q(4, 1), Q(10, 1), Q(15, 1), Q(0, 1), SameOrder),
      CallArgs(Q(100, 1), Q(-1, 1), Q(25, 6), Q(1, 2), SameOrder) }

\* the longest series of calls of one caller
MaxCalls == 2

Plans ==
    {<<a>> : a \in Grid} \cup UNION {[1..n -> Corners] : n \in 2..MaxCalls}

Init == InitWith(python("Plans", <<>>), {NoTri})

Spec == Init /\ [][Next]_vars

\* two calls with distance 0, travelled 0 and capability 1, at loads that
\* are multiples of 1/MonoDen between 0 and 10, the smaller load first
MonoDen == 4

MonoLoads == {Q(k, MonoDen) : k \in 0..(10 * MonoDen)}

MonoPlans ==
    {<<CallArgs(p[1], Zero, Zero, One, SameOrder), CallArgs(p[2], Zero, Zero, One, SameOrder)>> :
        p \in {q \in MonoLoads \X MonoLoads : QLe(q[1], q[2])}}

InitMono == InitWith(python("MonoPlans", <<>>), {NoTri})

SpecMono == InitMono /\ [][Next]_vars

\* one call on a reordered copy of the rule base: two rules exchanged, or
\* the list rotated
Orders ==
    {[i |-> i, j |-> j, rot |-> 0] :
        i \in 1..Len(fis_create), j \in 1..Len(fis_create)}
    \cup {[i |-> 1, j |-> 1, rot |-> r] : r \in 0..(Len(fis_create) - 1)}

OrderInputs ==
    { <<Q(4, 1), Q(10, 1), Q(15, 1), Q(1, 1)>>,
      <<Q(6, 1), Q(15, 1), Q(30, 1), Q(1, 2)>> }

OrderPlans ==
    {<<CallArgs(x[1], x[2], x[3], x[4], o)>> :
        x \in OrderInputs, o \in {o \in Orders : o.i < o.j \/ (o.i = 1 /\ o.j = 1)}}

InitOrder == InitWith(python("OrderPlans", <<>>), {NoTri})

SpecOrder == InitOrder /\ [][Next]_vars

\* fis_create, lines 44-78: one sample of one term's membership function
VariableOf(label) == IF label = suit.label THEN suit ELSE Antecedents[label]

TriPoints ==
    UNION {{[var |-> v.label, term |-> t, point |-> i] :
                t \in DOMAIN v.abc, i \in 1..Len(v.universe)} :
           v \in {lh, dtt, tdt, cap, suit}}

\* fuzz.trimf(universe, abc) of the chosen term, read at the chosen point
Trimf ==
    /\ pc = "start"
    /\ tri # NoTri
    /\ degree = None
    /\ degree' = python("trimf", <<tri>>)
    /\ UNCHANGED <<pc, rulebase, plan, args, ctrl_rules, input, firing, output,
                   log, warnings, tri>>

InitTrimf == InitWith({<<>>}, python("TriPoints", <<>>))

SpecTrimf == InitTrimf /\ [][Trimf]_vars

(***************************************************************************)
(* The interpreter: the operations on doubles, the functions of the        *)
(* program that the actions call, and the calls of the callers.            *)
(***************************************************************************)
\* rule.aggregate_firing of every rule of the rule base, in its order
firings(rules, crisp) ==
    LET memb == fuzz(crisp)
    IN  array([k \in 1..Len(rules) |-> aggregate_firing(rules[k], memb)])

python(f, x) ==
    CASE f = "<" -> Less(x[1], x[2])
      [] f = "+" -> Sum(x[1], x[2])
      [] f = "*" -> Product(x[1], x[2])
      [] f = "/" -> Quotient(x[1], x[2])
      [] f = "float" -> Float(x[1])
      [] f = "fis_create" -> fis_create
      [] f = "sim.input" -> sim_input(x[1], x[2], x[3], x[4])
      [] f = "aggregate_firing" -> firings(x[1], x[2])
      [] f = "sim.compute" -> compute(x[1], x[2])
      [] f = "trimf" -> VariableOf(x[1].var).terms[x[1].term][x[1].point]
      [] f = "Plans" -> Plans
      [] f = "MonoPlans" -> MonoPlans
      [] f = "OrderPlans" -> OrderPlans
      [] f = "TriPoints" -> TriPoints
(***************************************************************************)
(* Properties.                                                             *)
(***************************************************************************)
\* the centre of gravity of the triangle with breakpoints abc (the point b
\* for a triangle without width)
TriangleCentroid(abc) == QDiv(QAdd(QAdd(abc[1], abc[2]), abc[3]), FromInt(3))

\* 10^-12, far above the rounding of a double between 0 and 10 and far
\* below the distance of two different outputs of the rule surface
Slack == QDiv(One, QMul(FromInt(1000000), FromInt(1000000)))

\* v and w differ by rounding at most
Near(v, w) == QLe(QSub(v, w), Slack) /\ QLe(QSub(w, v), Slack)

SameResult(r, s) == r = s

InsideUniverses(a) ==
    /\ InUniverse(lh_range, a.load)
    /\ InUniverse(dtt_range, a.distance)
    /\ InUniverse(tdt_range, a.travelled)
    /\ InUniverse(cap_range, a.cap)

ArgsAre(l, d, t, c) ==
    args.load = l /\ args.distance = d /\ args.travelled = t /\ args.cap = c

OnlyRuleFires(k) ==
    /\ firing[k] = One
    /\ \A m \in (1..Len(firing)) \ {k} : firing[m] = Zero

\* C1: for every load, distance and travelled inside the universes, a call
\* with capability 0 returns the centroid of the 'Unacceptable' triangle
\* [0, 0, 0], which is exactly 0, and none of the 27 Matched rules fires.
C1_CapabilityGatingReturnsZero ==
    (pc = "computed" /\ InsideUniverses(args) /\ args.cap = Zero)
        => /\ \A k \in 1..27 : firing[k] = Zero
           /\ ~output.error
           /\ output.value = TriangleCentroid(suit_abc["Unacceptable"])
           /\ output.value = Zero

\* a variable all of whose triangular membership functions are 0 at the
\* crisp value given for it
NoSupport(a) ==
    \/ \A t \in DOMAIN lh_abc : trimf_at(a.load, lh_abc[t]) = Zero
    \/ \A t \in DOMAIN dtt_abc : trimf_at(a.distance, dtt_abc[t]) = Zero
    \/ \A t \in DOMAIN tdt_abc : trimf_at(a.travelled, tdt_abc[t]) = Zero
    \/ \A t \in DOMAIN cap_abc : trimf_at(a.cap, cap_abc[t]) = Zero

\* C2 as stated: an input tuple in which every term of some input variable
\* has degree exactly 0 ends in the degenerate-output error.
C2_NoSupportRaises ==
    (pc = "computed" /\ NoSupport(args)) => output.error

\* C2, amended: the evaluation fails exactly when no rule fires; an input
\* tuple in which every triangle of some variable is 0 at the given value
\* does not fail: the simulation holds a value at which some term of every
\* variable has a positive degree, and a number is returned.
C2_NoSupportReturnsNumber ==
    pc = "computed" =>
        /\ output.error <=> (\A k \in 1..Len(firing) : firing[k] = Zero)
        /\ NoSupport(args) =>
              /\ ~output.error
              /\ \A label \in DOMAIN Antecedents :
                    \E t \in DOMAIN Antecedents[label].terms :
                        QLt(Zero, fuzz(input)[label][t])

C2_Witness ==
    /\ pc = "computed"
    /\ NoSupport(args)
    /\ args.load = FromInt(100)
    /\ args.cap = One
    /\ ~output.error

\* what the call (0, 0, 0, 1) returns
Best == fis_solve(fis_create, Zero, Zero, Zero, One)

\* C3 as stated: the call (0, 0, 0, 1) fires only Rule 01, at strength 1,
\* and returns the centroid of the 'Very High' term; no call returns more.
C3_BoundaryIsMaximum ==
    pc = "computed" =>
        /\ ~output.error => QLe(output.value, Best.value)
        /\ ArgsAre(Zero, Zero, Zero, One) =>
              /\ OnlyRuleFires(1)
              /\ output = centroid(suit.universe, suit.terms["Very High"])
              /\ Near(output.value, TriangleCentroid(suit_abc["Very High"]))

\* C3, amended: the call (0, 0, 0, 1) fires only Rule 01, at strength 1, and
\* returns the centroid of the 'Very High' term (the centroid that the
\* library computes from the samples of the term, which is (a + b + c) / 3
\* up to rounding); no call returns more than that by more than the
\* rounding of the floating-point evaluation (10^-12).
C3_BoundaryIsMaximumUpToRounding ==
    pc = "computed" =>
        /\ ~output.error => QLe(output.value, QAdd(Best.value, Slack))
        /\ ArgsAre(Zero, Zero, Zero, One) =>
              /\ OnlyRuleFires(1)
              /\ output = centroid(suit.universe, suit.terms["Very High"])
              /\ Near(output.value, TriangleCentroid(suit_abc["Very High"]))

C3_Witness ==
    /\ pc = "computed"
    /\ ArgsAre(Zero, Zero, Zero, One)
    /\ ~output.error
    /\ Near(output.value, Q(335, 36))

\* C4: the call (10, 25, 50, 1) fires only Rule 27, at strength 1, and
\* returns the centroid of the 'Very Low' term (the centroid that the
\* library computes from the samples of the term, which is (a + b + c) / 3
\* up to rounding), which is greater than 0.
C4_ExtremeIsVeryLow ==
    (pc = "computed" /\ ArgsAre(FromInt(10), FromInt(25), FromInt(50), One)) =>
        /\ OnlyRuleFires(27)
        /\ output = centroid(suit.universe, suit.terms["Very Low"])
        /\ Near(output.value, TriangleCentroid(suit_abc["Very Low"]))
        /\ QLt(Zero, output.value)

C4_Witness ==
    /\ pc = "computed"
    /\ ArgsAre(FromInt(10), FromInt(25), FromInt(50), One)
    /\ ~output.error
    /\ Near(output.value, Q(25, 36))

\* C5 as stated: of two calls with distance 0, travelled 0 and capability
\* 1, the one with the larger load (both between 0 and 10) does not return
\* more.
C5_MonotoneInLoad ==
    (Len(log) = 2 /\ QLe(log[1].args.load, log[2].args.load)) =>
        /\ ~log[1].result.error
        /\ ~log[2].result.error
        /\ QLe(log[2].result.value, log[1].result.value)

\* C5, amended: of two calls with distance 0, travelled 0 and capability 1,
\* the one with the larger load (both between 0 and 10) does not return
\* more, up to the rounding of the floating-point evaluation: it returns at
\* most 10^-12 more.
C5_MonotoneUpToRounding ==
    (Len(log) = 2 /\ QLe(log[1].args.load, log[2].args.load)) =>
        /\ ~log[1].result.error
        /\ ~log[2].result.error
        /\ QLe(log[2].result.value, QAdd(log[1].result.value, Slack))

\* the loads 37/4 and 19/2, where the outputs are 5 up to rounding and the
\* second is the greater by one unit in the last place
C5_Witness ==
    /\ Len(log) = 2
    /\ log[1].args.load = Q(37, 4)
    /\ log[2].args.load = Q(19, 2)
    /\ QLt(log[1].result.value, log[2].result.value)
    /\ Near(log[1].result.value, FromInt(5))
    /\ Near(log[2].result.value, FromInt(5))

TriAbc == VariableOf(tri.var).abc[tri.term]

TriPoint == VariableOf(tri.var).universe[tri.point]

\* C6 as stated: for every term, the degree at a is 0, at b is 1 and at c
\* is 0, and every degree is in [0, 1].
C6_BreakpointDegrees ==
    degree # None =>
        /\ QLe(Zero, degree) /\ QLe(degree, One)
        /\ TriPoint = TriAbc[1] => degree = Zero
        /\ TriPoint = TriAbc[2] => degree = One
        /\ TriPoint = TriAbc[3] => degree = Zero

\* C6, amended: for every term, the degree at b is 1, the degree at a is 0
\* when a < b, the degree at c is 0 when b < c, and every degree is in [0, 1].
C6_BreakpointDegreesOffPeak ==
    degree # None =>
        /\ QLe(Zero, degree) /\ QLe(degree, One)
        /\ (TriPoint = TriAbc[1] /\ TriAbc[1] # TriAbc[2]) => degree = Zero
        /\ TriPoint = TriAbc[2] => degree = One
        /\ (TriPoint = TriAbc[3] /\ TriAbc[2] # TriAbc[3]) => degree = Zero

C6_Witness ==
    /\ degree = Zero
    /\ tri.var = "Load History"
    /\ tri.term = "Medium"
    /\ TriPoint = TriAbc[1]

\* C7: once built, the rule base is the same ordered sequence of 28 rules
\* after any number of fis_solve calls.
C7_RuleBaseImmutable ==
    pc # "start" => (Len(rulebase) = 28 /\ rulebase = fis_create)

C7_Witness ==
    /\ Len(log) >= 2
    /\ log[1].args # log[2].args
    /\ rulebase = fis_create

OutOfRange(a) == ~InsideUniverses(a)

\* the universe boundary nearest to v (v itself inside the universe)
Nearest(universe, v) ==
    IF QLt(v, universe[1]) THEN universe[1]
    ELSE IF QLt(universe[Len(universe)], v) THEN universe[Len(universe)]
    ELSE v

ClampedCall ==
    /\ ~output.error
    /\ input["Load History"] = Nearest(lh_range, args.load)
    /\ input["Distance to Task"] = Nearest(dtt_range, args.distance)
    /\ input["Total Distance Travelled"] = Nearest(tdt_range, args.travelled)
    /\ input["Capability"] = Nearest(cap_range, args.cap)
    /\ SameResult(output,
                  fis_solve(fis_create, Nearest(lh_range, args.load),
                            Nearest(dtt_range, args.distance),
                            Nearest(tdt_range, args.travelled),
                            Nearest(cap_range, args.cap)))

\* C8 as stated: a call with an input outside its universe does not fail,
\* the value is clamped to the nearest boundary, the output is that of the
\* boundary value, and a diagnostic is surfaced.
C8_ClampedWithDiagnostic ==
    (pc = "computed" /\ OutOfRange(args)) => (ClampedCall /\ warnings # <<>>)

\* C8, amended: a call with an input outside its universe does not fail,
\* the value is clamped to the nearest boundary and the output is that of
\* the boundary value; no diagnostic is surfaced.
C8_ClampedSilently ==
    (pc = "computed" /\ OutOfRange(args)) => (ClampedCall /\ warnings = <<>>)

C8_Witness ==
    /\ pc = "computed"
    /\ ArgsAre(FromInt(-1), FromInt(100), FromInt(25), One)
    /\ input["Load History"] = Zero
    /\ input["Distance to Task"] = FromInt(25)
    /\ ~output.error

\* C9: a call on a reordered copy of the rule base returns what the call on
\* the rule base in its built order returns.
C9_RuleOrderIndependent ==
    pc = "computed" => SameResult(output, compute(rulebase, input))

C9_Witness ==
    /\ pc = "computed"
    /\ ctrl_rules # rulebase
    /\ ~output.error
    /\ \E k, m \in 1..Len(firing) :
          /\ rulebase[k].consequent = rulebase[m].consequent
          /\ QLt(Zero, firing[k])
          /\ QLt(firing[k], firing[m])

\* C10: for every input tuple inside the universes with capability 0 or 1,
\* some rule has a positive firing strength and the call returns a number
\* between 0 and 10.
C10_RuleCoverage ==
    (pc = "computed" /\ InsideUniverses(args) /\ args.cap \in {Zero, One}) =>
        /\ \E k \in 1..Len(firing) : QLt(Zero, firing[k])
        /\ ~output.error
        /\ QLe(Zero, output.value)
        /\ QLe(output.value, FromInt(10))

C10_Witness ==
    /\ pc = "computed"
    /\ ArgsAre(Q(55, 6), FromInt(10), Q(25, 6), One)
    /\ ~output.error
    /\ Cardinality({k \in 1..Len(firing) : QLt(Zero, firing[k])}) > 1

=============================================================================
